---------------------------- MODULE Spec2Model ----------------------------
(***************************************************************************)
(* Scraping engine of MOD_test_prep: the traversal and chunked ingestion   *)
(* of SanfoundrySubjectScraper.scrape_all and GotestScraper.run, the       *)
(* pagination loop of indiabix_scraper_v2.scrape_topic, and the id-keyed   *)
(* upsert of db.py.  One behaviour is one run of one of these programs;    *)
(* prog says which.                                                        *)
(***************************************************************************)
EXTENDS Integers, Sequences, FiniteSets, TLC

\* ------------------------------------------------------------------ bounds
NPages == 3          \* section pages of the modelled site: URLs 1..NPages
MaxSections == 2     \* section links discovered on a subject homepage
NSubjects == 2       \* entries of SUBJECT_PATTERNS that pass subject_filter
MaxChunk == 2        \* chunk_size is drawn from 1..MaxChunk
MaxFetchFail == 1    \* fetches of one run that fail after all retries
MaxSinkFail == 1     \* on_chunk calls of one run that raise
MaxTests == 3        \* test links GotestScraper discovers
MaxExtractFail == 1  \* tests of one run whose extraction raises
IbxNPages == 2       \* pages of an IndiaBIX topic: URLs 1..IbxNPages
MaxQid == 2          \* distinct questions on those pages
MaxQuestions == 3    \* max_questions is drawn from 1..MaxQuestions
NIds == 2            \* question ids delivered to the store
NVals == 2           \* contents a delivered row can have
MaxRows == 3         \* rows of one upsert call
MaxCalls == 2        \* upsert calls of one behaviour
MaxChoices == 3      \* choice rows of a question container: 0..MaxChoices
MaxSkipped == 1      \* stats["skipped"] before the item: 0..MaxSkipped
MaxText == 4         \* characters of a prompt text
NScopes == 2         \* sub_category / topic values
MaxPageQuestions == 2  \* question containers of one IndiaBIX page: 0..MaxPageQuestions
MaxBlocks == 4       \* question blocks of a gotest test: 1..MaxBlocks
MaxViewSize == 2     \* blocks the gotest paginator shows at a time: 1..MaxViewSize
MaxLimit == 3        \* max_questions_per_test is None or in 0..MaxLimit
NQuestions == 2      \* questions of a test session
MaxChoiceIdx == 1    \* a question's choices: 0..MaxChoiceIdx
MaxSubmits == 3      \* submit_answer calls that find their question

\* ------------------------------------------------- program constants
MAX_PREV_STEPS == 50
MAX_NEXT_PAGES_PER_SECTION == 500
OPTION_CAP == 10     \* choice_divs[:10], options[:10]
SAN_OPTIONS == 4     \* "Pad to 4 options", options[:4]
MAX_RETRIES == 3     \* the same in the four scrapers
GO_SEED_CHARS == 200   \* q_text[:200] in the gotest seed
SAN_SEED_CHARS == 150  \* q_text[:150] in the sanfoundry seed
MAX_VIEWS == 50      \* "while view_num < 50"
HAR_SEED_CHARS == 200  \* q_text[:200] in the har_scraper seed
SCORE_CORRECT == 4     \* Decimal("1.0"), in quarter points
SCORE_INCORRECT == -1  \* Decimal("-0.25"), in quarter points
SCORE_SKIP == 0        \* Decimal("0.0")

Pages == 1..NPages
None == 0            \* Python None for an optional URL / soup
HOME == 0            \* the subject homepage, when held as soup

VARIABLES
    prog,            \* which program this behaviour runs
    pc,              \* position in the running function
    on_chunk,        \* "sink" (a callable) or "none" (dry run)
    chunk_size,
    all_rows,        \* rows extracted so far (the function's return value)
    pending,         \* buffer for incremental upsert
    delivered,       \* history: the chunks handed to on_chunk, in call order
    sinkFails,       \* history: on_chunk calls that raised
    fetchFails,      \* history: fetches that returned None
    extracted,       \* history: every row an extraction call returned, in order
    stats_errors,    \* self.stats["errors"]
    \* --- the site as SanfoundrySubjectScraper sees it
    nextLink,        \* page -> result of _find_next_link on that page
    prevLink,        \* page -> result of _find_prev_link on that page
    group,           \* page -> section keyword group (decides _same_section)
    section_urls,    \* the deduped section links of the homepage
    \* --- scrape_all locals
    subj,            \* index into SUBJECT_PATTERNS
    sec,             \* index into section_urls
    visited_global,
    section_visited,
    first_page_url,
    current_url,
    soup,            \* page whose content is held, None after a failed fetch
    prev_steps,
    next_pages,
    total_pages,
    \* --- history of the current section
    secExtracted,    \* pages whose rows were extracted, in order
    secPrevFetched,  \* pages fetched by seek-start, in order
    secCycles,       \* cycle / repeat branches taken
    secFetchFails,   \* failed fetches
    refetched,       \* some phase fetched a URL that was already visited
    \* --- GotestScraper.run locals
    n_tests,         \* len(test_links), None before discovery
    idx,             \* position in test_links
    stats_tests,     \* self.stats["tests"]
    same_question,   \* test 2 repeats the first question of test 1 (same sub_category)
    lost_rows,       \* history: rows extracted in a test before its extraction raised
    single_url,      \* self.single_url: None, or the test URL given with --url
    \* --- the topic as indiabix_scraper_v2 sees it
    ibxNext,         \* page -> the "Next" link found on it
    ibxQid,          \* page -> ids of the questions on it, in page order
    starting_urls,   \* page 001 of each type, in iteration order
    max_questions,
    \* --- scrape_topic locals
    questions,
    seen_ids,
    type_idx,
    ibx_url,         \* current_url
    pages_without_question,
    \* --- the questions table behind db.py
    table,           \* stored rows <<id, content>>
    sent,            \* the chunks the last call handed to the store, in order
    calls,           \* upsert calls made
    \* --- one question container given to an extractor
    itemIn,          \* what the extractor finds in the container
    itemOut,         \* the row it emits (or none), <<>> before the call
    stats_skipped,   \* self.stats["skipped"]
    \* --- two prompts given to an id function
    idIn,            \* [fn, scope1, text1, scope2, text2]
    idOut,           \* <<id1, id2>>, <<>> before the calls
    \* --- one call of a fetch function
    fetcher,         \* "san", "go", "ibx" or "pak"; "none" when no fetch is modelled
    attempt,         \* the loop variable of "for attempt in range(MAX_RETRIES)"
    tries,           \* history: the outcome of every attempt made
    sleeps,          \* history: seconds slept after each failed attempt (0: none)
    fetch_result,    \* "pending", "page" or "none" (the function returned None)
    \* --- one call of _get_correct_by_click
    clickIn,         \* the item's own container and how the interaction went
    pageIn,          \* the rest of the page: sibling items, page-level texts
    clickOut,        \* what the call resolved and touched, <<>> before the call
    prevOut,         \* history: clickOut of the call before the page was edited
    \* --- one test page as _extract_questions_from_test_page sees it
    max_questions_per_test,  \* self.max_questions_per_test, Unlimited for None
    n_blocks,        \* question blocks of the test
    view_size,       \* blocks the in-page paginator shows at a time
    dom_view,        \* the page: which group of blocks is visible (0, 1, ...)
    view_num,
    questions_attempted_so_far,
    last_visible,    \* the visible indices of the previous view, {} before the first
    click_returned,  \* history: what the last _click_question_block_link returned
    first_id_changed,  \* history: the first visible block's id changed in that call
    \* --- a TestSession of engine.py
    session_questions,  \* self.questions: question id -> correct_answer_idx
    answers,         \* self.answers: question id -> recorded answer, <<>> if none
    score_earned,    \* self.score_earned, in quarter points
    current_question_idx,
    status           \* self.status

sanVars == <<nextLink, prevLink, group, section_urls, subj, sec, visited_global,
             section_visited, first_page_url, current_url, soup, prev_steps,
             next_pages, total_pages, secExtracted, secPrevFetched, secCycles,
             secFetchFails, refetched>>
goVars == <<n_tests, idx, stats_tests, same_question, lost_rows, single_url>>
runVars == <<prog, pc, on_chunk, chunk_size, all_rows, pending, delivered,
             sinkFails, fetchFails, extracted, stats_errors>>
ibxVars == <<ibxNext, ibxQid, starting_urls, max_questions, questions, seen_ids,
             type_idx, ibx_url, pages_without_question>>
dbVars == <<table, sent, calls>>
itemVars == <<itemIn, itemOut, stats_skipped>>
idVars == <<idIn, idOut>>
fetchVars == <<fetcher, attempt, tries, sleeps, fetch_result>>
clickVars == <<clickIn, pageIn, clickOut, prevOut>>
viewVars == <<max_questions_per_test, n_blocks, view_size, dom_view, view_num,
              questions_attempted_so_far, last_visible, click_returned,
              first_id_changed>>
sessVars == <<session_questions, answers, score_earned, current_question_idx,
              status>>
extVars == <<clickVars, viewVars, sessVars>>
fnVars == <<itemVars, idVars, fetchVars, extVars>>
vars == <<runVars, sanVars, goVars, ibxVars, dbVars, fnVars>>
notSan == <<goVars, ibxVars, dbVars, fnVars>>
notGo == <<sanVars, ibxVars, dbVars, fnVars>>
scraperVars == <<on_chunk, chunk_size, all_rows, pending, delivered, sinkFails,
                 extracted, stats_errors>>
notIbx == <<scraperVars, sanVars, goVars, dbVars, fnVars>>
notDb == <<on_chunk, all_rows, pending, delivered, sinkFails, extracted,
           stats_errors, fetchFails, sanVars, goVars, ibxVars, fnVars>>

\* ------------------------------------------------------------ helpers
Range(s) == {s[i] : i \in DOMAIN s}

RECURSIVE Flatten(_)
Flatten(ss) == IF ss = <<>> THEN <<>> ELSE Head(ss) \o Flatten(Tail(ss))

Count(s, x) == Cardinality({i \in DOMAIN s : s[i] = x})

\* pending[:n] and pending[n:]
Take(s, n) == SubSeq(s, 1, IF n < Len(s) THEN n ELSE Len(s))
Drop(s, n) == SubSeq(s, (IF n < Len(s) THEN n ELSE Len(s)) + 1, Len(s))

\* Sequences of distinct pages of length 1..n
DistinctSeqs(n) ==
    {s \in UNION {[1..k -> Pages] : k \in 1..n} :
        \A i, j \in DOMAIN s : i # j => s[i] # s[j]}

\* ------------------------------------------------- extraction (abstract)
\* A row is identified by the subject, the page and its position on the page.
Item(s, p, k) == s * 100 + p * 10 + k
RowCount(p) == IF p = HOME THEN 1 ELSE (p % 2) + 1
\* _extract_questions_from_page(soup, sub_category)
ExtractRows(s, p) == [k \in 1..RowCount(p) |-> Item(s, p, k)]

\* _same_section(url, section_start_url)
SameSection(url, start) == group[url] = group[start]

\* -------------------------------------------------------- the sink call
\* on_chunk(chunk): the chunk is handed over; the call may raise.
SinkCall(chunk, raises) ==
    /\ raises => sinkFails < MaxSinkFail
    /\ delivered' = Append(delivered, chunk)
    /\ sinkFails' = IF raises THEN sinkFails + 1 ELSE sinkFails

\* A fetch (_fetch_page_playwright / _get_page_soup) returns a soup or None.
FetchOutcome(ok) == ~ok => fetchFails < MaxFetchFail

\* ------------------------------------- SanfoundrySubjectScraper.scrape_all
\* The variables of a program that is not the one running.
GoIdle ==
    /\ n_tests = None /\ idx = 0 /\ stats_tests = 0
    /\ same_question = FALSE /\ lost_rows = <<>> /\ single_url = None

IbxIdle ==
    /\ ibxNext = <<>> /\ ibxQid = <<>> /\ starting_urls = <<>>
    /\ max_questions = 0 /\ questions = <<>> /\ seen_ids = {}
    /\ type_idx = 0 /\ ibx_url = None /\ pages_without_question = 0

DbIdle == table = <<>> /\ sent = <<>> /\ calls = 0

ItemIdle == itemIn = <<>> /\ itemOut = <<>> /\ stats_skipped = 0

IdIdle == idIn = <<>> /\ idOut = <<>>

FetchIdle ==
    /\ fetcher = "none" /\ attempt = 0 /\ tries = <<>> /\ sleeps = <<>>
    /\ fetch_result = "pending"

ClickIdle == clickIn = <<>> /\ pageIn = <<>> /\ clickOut = <<>> /\ prevOut = <<>>

ViewIdle ==
    /\ max_questions_per_test = 0 /\ n_blocks = 0 /\ view_size = 0 /\ dom_view = 0
    /\ view_num = 0 /\ questions_attempted_so_far = 0 /\ last_visible = {}
    /\ click_returned = "none" /\ first_id_changed = FALSE

SessIdle ==
    /\ session_questions = <<>> /\ answers = <<>> /\ score_earned = 0
    /\ current_question_idx = 0 /\ status = "none"

ExtIdle == ClickIdle /\ ViewIdle /\ SessIdle

FnIdle == ItemIdle /\ IdIdle /\ FetchIdle /\ ExtIdle

ScraperIdle ==
    /\ on_chunk = "none" /\ chunk_size = 1
    /\ all_rows = <<>> /\ pending = <<>> /\ delivered = <<>>
    /\ sinkFails = 0 /\ extracted = <<>> /\ stats_errors = 0

SanIdle ==
    /\ nextLink = <<>> /\ prevLink = <<>> /\ group = <<>> /\ section_urls = <<>>
    /\ subj = 0 /\ sec = 0
    /\ visited_global = {} /\ section_visited = {}
    /\ first_page_url = None /\ current_url = None /\ soup = None
    /\ prev_steps = 0 /\ next_pages = 0 /\ total_pages = 0
    /\ secExtracted = <<>> /\ secPrevFetched = <<>>
    /\ secCycles = 0 /\ secFetchFails = 0 /\ refetched = FALSE

\* The site: any "next" relation; "prev" links absent or the inverse of "next";
\* the last page may carry the keywords of another subject.
InverseOf(f) ==
    [p \in Pages |->
        IF \E q \in Pages : f[q] = p
        THEN CHOOSE q \in Pages : f[q] = p /\ \A r \in Pages : f[r] = p => q <= r
        ELSE None]

SanWorlds ==
    /\ nextLink \in [Pages -> 0..NPages]
    /\ prevLink \in {[p \in Pages |-> None], InverseOf(nextLink)}
    /\ group \in {[p \in Pages |-> 1],
                  [p \in Pages |-> IF p = NPages THEN 2 ELSE 1]}
    /\ section_urls \in DistinctSeqs(MaxSections) \cup {<<>>}

SanInit ==
    /\ prog = "san"
    /\ pc = "subject"
    /\ on_chunk \in {"none", "sink"}
    /\ chunk_size \in 1..MaxChunk
    /\ all_rows = <<>> /\ pending = <<>> /\ delivered = <<>>
    /\ sinkFails = 0 /\ fetchFails = 0 /\ stats_errors = 0
    /\ extracted = <<>>
    /\ GoIdle /\ IbxIdle /\ DbIdle /\ FnIdle
    /\ SanWorlds
    /\ subj = 1 /\ sec = 0
    /\ visited_global = {} /\ section_visited = {}
    /\ first_page_url = None /\ current_url = None /\ soup = None
    /\ prev_steps = 0 /\ next_pages = 0 /\ total_pages = 0
    /\ secExtracted = <<>> /\ secPrevFetched = <<>>
    /\ secCycles = 0 /\ secFetchFails = 0 /\ refetched = FALSE

sanWorld == <<nextLink, prevLink, group, section_urls>>
secHist == <<secExtracted, secPrevFetched, secCycles, secFetchFails>>
sinkHist == <<delivered, sinkFails>>
config == <<prog, on_chunk, chunk_size>>

\* Mutant: the loop leaves a full chunk in the buffer.
SanLoopCondStrict(p, n) == Len(p) > n

\* "while len(pending) >= chunk_size" (lines 885, 1020)
SanLoopCond(p, n) == Len(p) >= n

\* Mutant: the slice starts one row too late.
FlushRemainingSkips(p, n) == Drop(p, n + 1)

\* pending[chunk_size:], what _flush_chunk returns after a flush (line 798)
FlushRemaining(p, n) == Drop(p, n)

\* Mutant: the cycle check looks at the run-level set.
ForwardCycleGlobal(url) == url \in visited_global

\* The cycle check of scrape-forward (line 991)
ForwardCycle(url) == url \in section_visited

\* One subject: fetch the homepage, extract its rows (lines 849-884).
SanHomepage ==
    /\ prog = "san" /\ pc = "subject" /\ subj <= NSubjects
    /\ \E ok \in BOOLEAN, contentRaises \in BOOLEAN :
        /\ FetchOutcome(ok)
        /\ IF ~ok
           THEN \* homepage fetch failed: continue with the next subject
                /\ subj' = subj + 1
                /\ fetchFails' = fetchFails + 1
                /\ UNCHANGED <<pc, all_rows, extracted, pending, soup>>
           ELSE IF contentRaises
           THEN \* page.content() raises: the exception leaves scrape_all
                /\ pc' = "raised"
                /\ UNCHANGED <<subj, fetchFails, all_rows, extracted, pending, soup>>
           ELSE /\ soup' = HOME
                /\ all_rows' = all_rows \o ExtractRows(subj, HOME)
                /\ extracted' = extracted \o ExtractRows(subj, HOME)
                /\ pending' = pending \o ExtractRows(subj, HOME)
                /\ pc' = "hflush"
                /\ UNCHANGED <<subj, fetchFails>>
    /\ UNCHANGED <<config, notSan, sinkHist, stats_errors, sanWorld, sec, visited_global,
                   section_visited, first_page_url, current_url, prev_steps,
                   next_pages, total_pages, secHist, refetched>>

\* _flush_chunk(pending, chunk_size, on_chunk): the new value of pending.
\* One iteration of "while len(pending) >= chunk_size: pending = _flush_chunk(...)".
SanFlushChunk ==
    /\ prog = "san" /\ pc \in {"hflush", "pflush"}
    /\ SanLoopCond(pending, chunk_size)
    /\ IF on_chunk = "none" \/ Len(pending) < chunk_size
       THEN UNCHANGED <<pending, sinkHist>>
       ELSE /\ \E raises \in BOOLEAN : SinkCall(Take(pending, chunk_size), raises)
            /\ pending' = FlushRemaining(pending, chunk_size)
    /\ UNCHANGED <<config, notSan, pc, all_rows, extracted, fetchFails, stats_errors,
                   sanVars>>

\* The homepage flush loop ends: dedupe the section links, start the section loop
\* (lines 887-911).
SanHomeFlushDone ==
    /\ prog = "san" /\ pc = "hflush"
    /\ ~SanLoopCond(pending, chunk_size)
    /\ IF section_urls = <<>>
       THEN /\ subj' = subj + 1 /\ pc' = "subject"
            /\ UNCHANGED <<visited_global, total_pages, sec>>
       ELSE /\ visited_global' = {} /\ total_pages' = 0 /\ sec' = 1
            /\ pc' = "section"
            /\ UNCHANGED subj
    /\ UNCHANGED <<config, notSan, all_rows, extracted, pending, sinkHist, fetchFails, stats_errors,
                   sanWorld, section_visited, first_page_url, current_url, soup,
                   prev_steps, next_pages, secHist, refetched>>

\* Dispatch one section: land on its entry reference (lines 914-937).
SanLanding ==
    /\ prog = "san" /\ pc = "section"
    /\ LET start == section_urls[sec] IN
       /\ section_visited' = {}
       /\ visited_global' = visited_global \cup {start}
       /\ first_page_url' = start
       /\ secExtracted' = <<>> /\ secPrevFetched' = <<>> /\ secCycles' = 0
       /\ \E ok \in BOOLEAN :
            /\ FetchOutcome(ok)
            /\ IF ok
               THEN /\ soup' = start /\ prev_steps' = 0 /\ pc' = "prev"
                    /\ secFetchFails' = 0
                    /\ UNCHANGED fetchFails
               ELSE /\ soup' = None /\ pc' = "secend"
                    /\ secFetchFails' = 1
                    /\ fetchFails' = fetchFails + 1
                    /\ UNCHANGED prev_steps
    /\ UNCHANGED <<config, notSan, all_rows, extracted, pending, sinkHist, stats_errors, sanWorld,
                   subj, sec, current_url, next_pages, total_pages, refetched>>

\* Leaving the seek-start loop (lines 977-986).
SanSeekDone ==
    /\ current_url' = first_page_url
    /\ next_pages' = 0
    /\ pc' = "fwd"

\* One iteration of the seek-start loop (lines 938-975).
SanPrevStep ==
    /\ prog = "san" /\ pc = "prev"
    /\ LET start == section_urls[sec]
           prev_url == prevLink[soup]
       IN
       IF \/ prev_steps >= MAX_PREV_STEPS
          \/ prev_url = None
          \/ prev_url = first_page_url
          \/ ~SameSection(prev_url, start)
       THEN /\ SanSeekDone
            /\ UNCHANGED <<first_page_url, soup, prev_steps, visited_global,
                           section_visited, secHist, fetchFails>>
       ELSE IF prev_url \in visited_global \/ prev_url \in section_visited
       THEN /\ SanSeekDone
            /\ secCycles' = secCycles + 1
            /\ UNCHANGED <<first_page_url, soup, prev_steps, visited_global,
                           section_visited, secExtracted, secPrevFetched,
                           secFetchFails, fetchFails>>
       ELSE /\ prev_steps' = prev_steps + 1
            /\ visited_global' = visited_global \cup {prev_url}
            /\ section_visited' = section_visited \cup {prev_url}
            /\ first_page_url' = prev_url
            /\ secPrevFetched' = Append(secPrevFetched, prev_url)
            /\ \E ok \in BOOLEAN :
                /\ FetchOutcome(ok)
                /\ IF ok
                   THEN /\ soup' = prev_url
                        /\ UNCHANGED <<pc, current_url, next_pages, fetchFails,
                                       secFetchFails>>
                   ELSE \* break, then "if not soup: continue"
                        /\ soup' = None /\ pc' = "secend"
                        /\ fetchFails' = fetchFails + 1
                        /\ secFetchFails' = secFetchFails + 1
                        /\ UNCHANGED <<current_url, next_pages>>
            /\ UNCHANGED <<secExtracted, secCycles>>
    /\ UNCHANGED <<config, notSan, all_rows, extracted, pending, sinkHist, stats_errors, sanWorld,
                   subj, sec, total_pages, refetched>>

\* One iteration of the scrape-forward loop up to the flush loop (lines 987-1019).
SanForwardPage ==
    /\ prog = "san" /\ pc = "fwd"
    /\ IF current_url = None \/ next_pages >= MAX_NEXT_PAGES_PER_SECTION
       THEN /\ pc' = "secend"
            /\ UNCHANGED <<visited_global, section_visited, total_pages, next_pages,
                           soup, all_rows, extracted, pending, secHist, fetchFails,
                           refetched>>
       ELSE IF ForwardCycle(current_url)
       THEN \* "Cycle detected at ..., stopping section"
            /\ pc' = "secend"
            /\ secCycles' = secCycles + 1
            /\ UNCHANGED <<visited_global, section_visited, total_pages, next_pages,
                           soup, all_rows, extracted, pending, secExtracted,
                           secPrevFetched,
                           secFetchFails, fetchFails, refetched>>
       ELSE /\ visited_global' = visited_global \cup {current_url}
            /\ section_visited' = section_visited \cup {current_url}
            /\ total_pages' = total_pages + 1
            /\ next_pages' = next_pages + 1
            /\ \E ok \in BOOLEAN :
                /\ FetchOutcome(ok)
                /\ IF total_pages' > 1 /\ ~ok
                   THEN \* the fetch of current_url failed: break
                        /\ soup' = None /\ pc' = "secend"
                        /\ fetchFails' = fetchFails + 1
                        /\ secFetchFails' = secFetchFails + 1
                        /\ refetched' = (refetched \/ current_url \in visited_global)
                        /\ UNCHANGED <<all_rows, extracted, pending, secExtracted>>
                   ELSE /\ ok
                        /\ soup' = IF total_pages' > 1 THEN current_url ELSE soup
                        /\ refetched' = (refetched \/ (total_pages' > 1
                                            /\ current_url \in visited_global))
                        /\ all_rows' = all_rows \o ExtractRows(subj, soup')
                        /\ extracted' = extracted \o ExtractRows(subj, soup')
                        /\ pending' = pending \o ExtractRows(subj, soup')
                        /\ secExtracted' = Append(secExtracted, soup')
                        /\ pc' = "pflush"
                        /\ UNCHANGED <<fetchFails, secFetchFails>>
            /\ UNCHANGED <<secPrevFetched, secCycles>>
    /\ UNCHANGED <<config, notSan, sinkHist, stats_errors, sanWorld, subj, sec,
                   first_page_url, current_url, prev_steps>>

\* The page flush loop ends: resolve the next target (lines 1023-1043).
SanPageFlushDone ==
    /\ prog = "san" /\ pc = "pflush"
    /\ ~SanLoopCond(pending, chunk_size)
    /\ LET start == section_urls[sec]
           next_url == nextLink[soup]
       IN
       IF next_url = None
       THEN /\ pc' = "secend" /\ UNCHANGED <<current_url, secCycles>>
       ELSE IF next_url \in visited_global
       THEN \* "Next would repeat visited page, stopping section"
            /\ pc' = "secend" /\ secCycles' = secCycles + 1
            /\ UNCHANGED current_url
       ELSE IF ~SameSection(next_url, start)
       THEN /\ pc' = "secend" /\ UNCHANGED <<current_url, secCycles>>
       ELSE /\ current_url' = next_url /\ pc' = "fwd"
            /\ UNCHANGED secCycles
    /\ UNCHANGED <<config, notSan, all_rows, extracted, pending, sinkHist, fetchFails, stats_errors,
                   sanWorld, subj, sec, visited_global, section_visited,
                   first_page_url, soup, prev_steps, next_pages, total_pages,
                   secExtracted, secPrevFetched, secFetchFails, refetched>>

\* The section's traversal is over: next section, or next subject (lines 1045-1048).
SanNextSection ==
    /\ prog = "san" /\ pc = "secend"
    /\ IF sec < Len(section_urls)
       THEN /\ sec' = sec + 1 /\ pc' = "section" /\ UNCHANGED subj
       ELSE /\ subj' = subj + 1 /\ pc' = "subject" /\ UNCHANGED sec
    /\ UNCHANGED <<config, notSan, all_rows, extracted, pending, sinkHist, fetchFails, stats_errors,
                   sanWorld, visited_global, section_visited, first_page_url,
                   current_url, soup, prev_steps, next_pages, total_pages,
                   secHist, refetched>>

\* After the subject loop: flush the remainder and return all_rows (lines 1049-1058).
SanFinalFlush ==
    /\ prog = "san" /\ pc = "subject" /\ subj > NSubjects
    /\ IF on_chunk = "sink" /\ pending # <<>>
       THEN \E raises \in BOOLEAN : SinkCall(pending, raises)
       ELSE UNCHANGED sinkHist
    /\ pc' = "done"
    /\ UNCHANGED <<config, notSan, all_rows, extracted, pending, fetchFails,
                   stats_errors, sanVars>>

SanNext ==
    \/ SanHomepage
    \/ SanFlushChunk
    \/ SanHomeFlushDone
    \/ SanLanding
    \/ SanPrevStep
    \/ SanForwardPage
    \/ SanPageFlushDone
    \/ SanNextSection
    \/ SanFinalFlush

SanSpec == SanInit /\ [][SanNext]_vars

\* scrape_all is sequential code: it always takes its next step.
SanLive == SanSpec /\ WF_vars(SanNext)

\* --------------------------------------------------------- GotestScraper.run
\* _extract_questions_from_test_page(page, test_url, sub): the rows of one test.
GoRowCount(t) == (t % 2) + 2
\* _extract_questions_from_test_page(page, test_url, sub): the id of a row is made
\* from sub_category and question text, so a question that a second test of the
\* same sub_category repeats gets the id it has in the first.
GoExtractRows(t) ==
    [k \in 1..GoRowCount(t) |->
        IF same_question /\ t = 2 /\ k = 1 THEN Item(1, HOME, 1) ELSE Item(t, HOME, k)]

GoInit ==
    /\ prog = "go"
    /\ pc = "discover"
    /\ on_chunk \in {"none", "sink"}
    /\ chunk_size \in 1..MaxChunk
    /\ all_rows = <<>> /\ pending = <<>> /\ delivered = <<>>
    /\ sinkFails = 0 /\ fetchFails = 0 /\ stats_errors = 0
    /\ extracted = <<>>
    /\ n_tests = None /\ idx = 0 /\ stats_tests = 0
    /\ same_question = FALSE /\ lost_rows = <<>>
    /\ single_url \in {None} \cup (1..MaxTests)
    /\ IbxIdle /\ DbIdle /\ FnIdle
    /\ SanIdle

\* "while on_chunk and len(pending) >= chunk_size" (line 889)
GoLoopCond(oc, p, n) == oc = "sink" /\ Len(p) >= n

\* Mutant: the exception of on_chunk is not caught.
GoSinkErrorUncaught == "raised"

\* Where run continues after on_chunk raised in the flush loop: the except clause
\* of the test (lines 893-895), then the next test.
GoSinkErrorPc == "test"

\* test_links = self._discover_all_test_urls(page) (line 876): the links of the
\* two index pages, cut to max_tests (lines 199-227); self.single_url is not
\* read.
GoDiscover ==
    /\ prog = "go" /\ pc = "discover"
    /\ n_tests' \in 0..MaxTests
    /\ same_question' \in BOOLEAN
    /\ idx' = 1
    /\ pc' = "test"
    /\ UNCHANGED <<config, notGo, all_rows, extracted, pending, sinkHist, fetchFails,
                   stats_errors, stats_tests, lost_rows, single_url>>

\* One test: extract its rows and append them (lines 879-887).
GoTestExtract ==
    /\ prog = "go" /\ pc = "test" /\ idx <= n_tests
    /\ stats_tests' = stats_tests + 1
    /\ \E outcome \in {"rows", "nofetch", "raise"} :
        /\ outcome = "nofetch" => fetchFails < MaxFetchFail
        /\ outcome = "raise" => stats_errors < MaxExtractFail
        /\ IF outcome = "raise"
           THEN \* an exception leaves _extract_questions_from_soup at some block,
                \* with the rows of the blocks before it in its local list;
                \* except Exception: stats["errors"] += 1, next test
                /\ \E k \in 0..(GoRowCount(idx) - 1) :
                      lost_rows' = lost_rows \o Take(GoExtractRows(idx), k)
                /\ stats_errors' = stats_errors + 1
                /\ idx' = idx + 1
                /\ UNCHANGED <<pc, all_rows, extracted, pending, fetchFails>>
           ELSE LET rows == IF outcome = "rows" THEN GoExtractRows(idx) ELSE <<>> IN
                /\ all_rows' = all_rows \o rows
                /\ extracted' = extracted \o rows
                /\ pending' = pending \o rows
                /\ fetchFails' = IF outcome = "nofetch" THEN fetchFails + 1
                                 ELSE fetchFails
                /\ pc' = "gflush"
                /\ UNCHANGED <<idx, stats_errors, lost_rows>>
    /\ UNCHANGED <<config, notGo, sinkHist, n_tests, same_question, single_url>>

\* Mutant: the slice starts one row too late.
GoFlushRemainingSkips(p, n) == Drop(p, n + 1)

\* "pending = pending[chunk_size:]" (line 891)
GoFlushRemaining(p, n) == Drop(p, n)

\* One iteration of "while on_chunk and len(pending) >= chunk_size" (lines 889-892);
\* an exception of on_chunk is caught by the test's except clause (lines 893-895).
GoFlushChunk ==
    /\ prog = "go" /\ pc = "gflush"
    /\ GoLoopCond(on_chunk, pending, chunk_size)
    /\ pending' = GoFlushRemaining(pending, chunk_size)
    /\ \E raises \in BOOLEAN :
        /\ SinkCall(Take(pending, chunk_size), raises)
        /\ IF raises
           THEN /\ stats_errors' = stats_errors + 1
                /\ idx' = idx + 1
                /\ pc' = GoSinkErrorPc
           ELSE UNCHANGED <<stats_errors, idx, pc>>
    /\ UNCHANGED <<config, notGo, all_rows, extracted, fetchFails, n_tests,
                   stats_tests, same_question, lost_rows, single_url>>

\* The flush loop ends: next test (line 896).
GoFlushDone ==
    /\ prog = "go" /\ pc = "gflush"
    /\ ~GoLoopCond(on_chunk, pending, chunk_size)
    /\ idx' = idx + 1
    /\ pc' = "test"
    /\ UNCHANGED <<config, notGo, all_rows, extracted, pending, sinkHist, fetchFails,
                   stats_errors, n_tests, stats_tests, same_question, lost_rows,
                   single_url>>

\* After the test loop: flush the remainder and return all_rows (lines 897-905).
GoFinalFlush ==
    /\ prog = "go" /\ pc = "test" /\ idx > n_tests
    /\ IF on_chunk = "sink" /\ pending # <<>>
       THEN \E raises \in BOOLEAN : SinkCall(pending, raises)
       ELSE UNCHANGED sinkHist
    /\ pc' = "done"
    /\ UNCHANGED <<config, notGo, all_rows, extracted, pending, fetchFails,
                   stats_errors, goVars>>

GoNext ==
    \/ GoDiscover
    \/ GoTestExtract
    \/ GoFlushChunk
    \/ GoFlushDone
    \/ GoFinalFlush

\* ------------------------------------------------------ the two scrapers
Init == SanInit \/ GoInit

Next ==
    \/ SanHomepage
    \/ SanFlushChunk
    \/ SanHomeFlushDone
    \/ SanLanding
    \/ SanPrevStep
    \/ SanForwardPage
    \/ SanPageFlushDone
    \/ SanNextSection
    \/ SanFinalFlush
    \/ GoDiscover
    \/ GoTestExtract
    \/ GoFlushChunk
    \/ GoFlushDone
    \/ GoFinalFlush

Spec == Init /\ [][Next]_vars

\* ------------------------------------------- indiabix_scraper_v2.scrape_topic
IbxPages == 1..IbxNPages

\* The questions of one page ("1-6 questions per page"), as their ids.
IbxPageQuestions == UNION {[1..k -> 1..MaxQid] : k \in 0..MaxPageQuestions}

IbxInit ==
    /\ prog = "ibx"
    /\ pc = "category"
    /\ fetchFails = 0
    /\ ScraperIdle /\ SanIdle /\ GoIdle /\ DbIdle /\ FnIdle
    /\ ibxNext \in [IbxPages -> 0..IbxNPages]
    /\ ibxQid \in [IbxPages -> IbxPageQuestions]
    /\ starting_urls \in
         {s \in UNION {[1..k -> IbxPages] : k \in 0..IbxNPages} :
             \A i, j \in DOMAIN s : i # j => s[i] # s[j]}
    /\ max_questions \in 1..MaxQuestions
    /\ questions = <<>> /\ seen_ids = {}
    /\ type_idx = 0 /\ ibx_url = None /\ pages_without_question = 0

\* The "while" condition of the pagination loop (line 241)
IbxLoopCond(url, n, empty_pages) ==
    url # None /\ n < max_questions /\ empty_pages < 2

\* extract_question_urls_from_category_page (lines 87-124, 224-228)
IbxCategory ==
    /\ prog = "ibx" /\ pc = "category"
    /\ \E ok \in BOOLEAN :
        /\ FetchOutcome(ok)
        /\ IF ok /\ starting_urls # <<>>
           THEN /\ type_idx' = 1 /\ pc' = "type"
                /\ UNCHANGED fetchFails
           ELSE \* no starting questions found: return questions
                /\ pc' = "done"
                /\ fetchFails' = IF ok THEN fetchFails ELSE fetchFails + 1
                /\ UNCHANGED type_idx
    /\ UNCHANGED <<prog, notIbx, ibxNext, ibxQid, starting_urls, max_questions,
                   questions, seen_ids, ibx_url, pages_without_question>>

\* The head of "for type_idx, start_url in enumerate(starting_urls, 1)"
\* (lines 231-238).
IbxNextType ==
    /\ prog = "ibx" /\ pc = "type"
    /\ IF type_idx > Len(starting_urls) \/ Len(questions) >= max_questions
       THEN /\ pc' = "done"
            /\ UNCHANGED <<ibx_url, pages_without_question>>
       ELSE /\ ibx_url' = starting_urls[type_idx]
            /\ pages_without_question' = 0
            /\ pc' = "page"
    /\ UNCHANGED <<prog, notIbx, fetchFails, ibxNext, ibxQid, starting_urls,
                   max_questions, questions, seen_ids, type_idx>>

\* The page's questions that are added: unseen ids, while below max_questions
\* (lines 245-250).
RECURSIVE IbxAddFrom(_, _, _)
IbxAddFrom(n, seen, page_questions) ==
    IF page_questions = <<>> THEN <<>>
    ELSE IF Head(page_questions) \notin seen /\ n < max_questions
    THEN <<Head(page_questions)>>
            \o IbxAddFrom(n + 1, seen \cup {Head(page_questions)}, Tail(page_questions))
    ELSE IbxAddFrom(n, seen, Tail(page_questions))

IbxAdd(page_questions) == IbxAddFrom(Len(questions), seen_ids, page_questions)

\* One iteration of the pagination loop (lines 241-259).
IbxPage ==
    /\ prog = "ibx" /\ pc = "page"
    /\ IF ~IbxLoopCond(ibx_url, Len(questions), pages_without_question)
       THEN /\ type_idx' = type_idx + 1 /\ pc' = "type"
            /\ UNCHANGED <<fetchFails, questions, seen_ids, ibx_url,
                           pages_without_question>>
       ELSE \E result \in {"page", "nofetch", "parse_error"} :
            /\ result = "nofetch" => fetchFails < MaxFetchFail
            /\ IF result = "nofetch"
               THEN \* extract_questions_from_page returns None: the unpacking
                    \* "page_questions, next_url = None" raises TypeError
                    /\ pc' = "raised"
                    /\ fetchFails' = fetchFails + 1
                    /\ UNCHANGED <<questions, seen_ids, ibx_url, type_idx,
                                   pages_without_question>>
               ELSE LET page_questions ==
                            IF result = "page" THEN ibxQid[ibx_url] ELSE <<>>
                        next_url ==
                            IF result = "page" THEN ibxNext[ibx_url] ELSE None
                    IN
                    /\ UNCHANGED fetchFails
                    /\ IF page_questions # <<>>
                       THEN /\ questions' = questions \o IbxAdd(page_questions)
                            /\ seen_ids' = seen_ids \cup Range(IbxAdd(page_questions))
                            /\ pages_without_question' = 0
                            /\ ibx_url' = next_url
                            /\ UNCHANGED <<pc, type_idx>>
                       ELSE /\ pages_without_question' = pages_without_question + 1
                            /\ UNCHANGED <<questions, seen_ids>>
                            /\ IF pages_without_question' < 2 /\ next_url # None
                               THEN /\ ibx_url' = next_url
                                    /\ UNCHANGED <<pc, type_idx>>
                               ELSE \* break
                                    /\ type_idx' = type_idx + 1 /\ pc' = "type"
                                    /\ UNCHANGED ibx_url
    /\ UNCHANGED <<prog, notIbx, ibxNext, ibxQid, starting_urls, max_questions>>

IbxNext ==
    \/ IbxCategory
    \/ IbxNextType
    \/ IbxPage

IbxSpec == IbxInit /\ [][IbxNext]_vars

\* scrape_topic is sequential code: it always takes its next step.
IbxLive == IbxSpec /\ WF_vars(IbxNext)

\* ------------------------------------------------------------- db.py upserts
Ids == 1..NIds
Vals == 1..NVals
\* A row <<id, content>>
RowInputs == UNION {[1..k -> Ids \X Vals] : k \in 0..MaxRows}

HasDupIds(rows) == \E i, j \in DOMAIN rows : i # j /\ rows[i][1] = rows[j][1]

\* Mutant: the rows are passed on as they came.
DedupeNone(rows) == rows

\* list({r["id"]: r for r in rows}.values()): one row per id, at the place of the
\* id's first occurrence, with the content of its last occurrence (lines 35-36, 45-46).
DedupeById(rows) ==
    LET firsts == {i \in DOMAIN rows : \A j \in 1..(i - 1) : rows[j][1] # rows[i][1]}
        last(id) == CHOOSE i \in DOMAIN rows :
                        /\ rows[i][1] = id
                        /\ \A j \in DOMAIN rows : rows[j][1] = id => j <= i
        RECURSIVE build(_)
        build(i) ==
            IF i > Len(rows) THEN <<>>
            ELSE IF i \in firsts THEN <<rows[last(rows[i][1])]>> \o build(i + 1)
            ELSE build(i + 1)
    IN build(1)

\* rows[i : i + chunk_size] for i in range(0, len(rows), chunk_size) (lines 51-52)
RECURSIVE ChunksOf(_, _)
ChunksOf(rows, n) ==
    IF rows = <<>> THEN <<>> ELSE <<Take(rows, n)>> \o ChunksOf(Drop(rows, n), n)

\* client.table("questions").upsert(chunk, on_conflict="id").execute() on a chunk
\* without duplicate ids: a stored row with the id is overwritten, else the row
\* is inserted (lines 39, 55).
RECURSIVE StoreUpsert(_, _)
StoreUpsert(t, chunk) ==
    IF chunk = <<>> THEN t
    ELSE LET r == Head(chunk)
             hit == {i \in DOMAIN t : t[i][1] = r[1]}
             t1 == IF hit = {} THEN Append(t, r)
                   ELSE [i \in DOMAIN t |-> IF i \in hit THEN r ELSE t[i]]
         IN StoreUpsert(t1, Tail(chunk))

\* The chunks of one call reach the store in order.  A chunk with two rows of the
\* same id makes the statement fail (the ON CONFLICT error of the docstring,
\* line 43); so does a lost connection (failAt).  The failing execute() raises
\* and ends the call.
RECURSIVE StoreRun(_, _, _, _)
StoreRun(t, chunks, k, failAt) ==
    IF k > Len(chunks) THEN t
    ELSE IF k = failAt \/ HasDupIds(chunks[k]) THEN t
    ELSE StoreRun(StoreUpsert(t, chunks[k]), chunks, k + 1, failAt)

RECURSIVE SentBy(_, _, _)
SentBy(chunks, k, failAt) ==
    IF k > Len(chunks) THEN <<>>
    ELSE IF k = failAt \/ HasDupIds(chunks[k]) THEN <<chunks[k]>>
    ELSE <<chunks[k]>> \o SentBy(chunks, k + 1, failAt)

DbInit ==
    /\ prog = "db"
    /\ pc = "idle"
    /\ fetchFails = 0
    /\ ScraperIdle /\ SanIdle /\ GoIdle /\ IbxIdle /\ FnIdle
    /\ chunk_size = 1
    /\ table = <<>> /\ sent = <<>> /\ calls = 0

\* upsert_questions_chunk(client, rows) (lines 31-39)
DbUpsertChunk ==
    /\ prog = "db" /\ calls < MaxCalls
    /\ \E rows \in RowInputs, failAt \in 0..1 :
        LET chunks == IF rows = <<>> THEN <<>> ELSE <<DedupeById(rows)>> IN
        /\ table' = StoreRun(table, chunks, 1, failAt)
        /\ sent' = SentBy(chunks, 1, failAt)
    /\ calls' = calls + 1
    /\ UNCHANGED <<prog, pc, chunk_size, notDb>>

\* upsert_questions_bulk(client, rows, chunk_size) (lines 42-55)
DbUpsertBulk ==
    /\ prog = "db" /\ calls < MaxCalls
    /\ \E rows \in RowInputs, n \in 1..MaxChunk, failAt \in 0..MaxRows :
        LET chunks == ChunksOf(DedupeById(rows), n) IN
        /\ chunk_size' = n
        /\ table' = StoreRun(table, chunks, 1, failAt)
        /\ sent' = SentBy(chunks, 1, failAt)
    /\ calls' = calls + 1
    /\ UNCHANGED <<prog, pc, notDb>>

DbNext ==
    \/ DbUpsertChunk
    \/ DbUpsertBulk

DbSpec == DbInit /\ [][DbNext]_vars

\* ------------------------------------------------ one question container
Min(a, b) == IF a < b THEN a ELSE b

\* Numbers of choice rows a container can have: few, or around the cap.
OptionCounts == (0..MaxChoices) \cup ((OPTION_CAP - 1)..(OPTION_CAP + 1))
\* Results of an answer-resolution strategy: -1 (not found) or an index.
IdxOutcomes == (-1)..(OPTION_CAP + 1)

NoRow(skip) ==
    [emitted |-> FALSE, n_options |-> 0, correct_answer_idx |-> -1,
     flagged |-> FALSE, skipped |-> skip]
Row(n, c, flag) ==
    [emitted |-> TRUE, n_options |-> n, correct_answer_idx |-> c,
     flagged |-> flag, skipped |-> 0]
ItemInput(fn, text_ok, seen, n, dom, click, page, allow, is_list, is_int) ==
    [fn |-> fn, text_ok |-> text_ok, seen |-> seen, n_choices |-> n, dom |-> dom,
     click |-> click, page |-> page, allow_unknown |-> allow,
     is_list |-> is_list, is_int |-> is_int]

\* "while len(options) < 2: options.append('')" after choice_divs[:10]
\* (gotest_live_scraper.py lines 490-498)
GoPad(n) == IF n < 2 THEN 2 ELSE n

\* Mutant: the resolved index is stored as resolved.
GoClampNone(c, n) == c

\* "if correct_idx >= n_opts: correct_idx = n_opts - 1" (lines 517-518)
GoClamp(c, n) == IF c >= n THEN n - 1 ELSE c

\* Mutant: the placeholder row is emitted without the flag.
GoPlaceholderUnflagged(n) == Row(n, 0, FALSE)

\* allow_unknown_correct: index 0 and "(Correct answer not verified - gotest). "
\* in front of the explanation (lines 508-511)
GoPlaceholder(n) == Row(n, 0, TRUE)

\* GotestScraper._extract_questions_from_soup, one block of the loop
\* (lines 474-529)
GoItem(in) ==
    LET n_opts == GoPad(Min(in.n_choices, OPTION_CAP))
        c1 == in.dom
        c2 == IF c1 < 0 /\ in.page THEN in.click ELSE c1
    IN  IF ~in.text_ok \/ in.seen THEN NoRow(0)
        ELSE IF n_opts < 2 THEN NoRow(1)
        ELSE IF c2 < 0
             THEN IF in.allow_unknown THEN GoPlaceholder(Min(n_opts, OPTION_CAP))
                  ELSE NoRow(1)
        ELSE Row(Min(n_opts, OPTION_CAP), GoClamp(c2, n_opts), FALSE)

\* "if len(options) < 2" (sanfoundry_subject_scraper_new.py line 719)
SanTooFew(n) == n < 2

\* SanfoundrySubjectScraper._extract_questions_from_page, one span of the loop
\* (lines 699-751)
SanItem(in) ==
    LET c == in.dom IN
    IF c < 0 THEN NoRow(1)
    ELSE IF ~in.text_ok THEN NoRow(1)
    ELSE IF SanTooFew(in.n_choices) THEN NoRow(1)
    ELSE LET n_opts == IF in.n_choices < SAN_OPTIONS THEN SAN_OPTIONS
                       ELSE in.n_choices
             c1 == IF c >= n_opts THEN 0 ELSE c
         IN  IF in.seen THEN NoRow(1)
             ELSE Row(Min(n_opts, SAN_OPTIONS), c1, FALSE)

\* importer.parse_line (importer.py lines 35-75)
ImpItem(in) ==
    IF ~in.text_ok THEN NoRow(0)
    ELSE IF ~in.is_list \/ in.n_choices < 2 THEN NoRow(0)
    ELSE LET c0 == IF ~in.is_int \/ in.dom < 0 THEN 0 ELSE in.dom
             c1 == IF c0 >= in.n_choices THEN 0 ELSE c0
         IN  IF in.n_choices > OPTION_CAP
             THEN Row(OPTION_CAP, IF c1 >= OPTION_CAP THEN OPTION_CAP - 1 ELSE c1, FALSE)
             ELSE Row(in.n_choices, c1, FALSE)

GoItemInputs ==
    {ItemInput("go", t, sn, n, d, c, pg, al, TRUE, TRUE) :
        t \in BOOLEAN, sn \in BOOLEAN, n \in OptionCounts, d \in IdxOutcomes,
        c \in (-1)..MaxChoices, pg \in BOOLEAN, al \in BOOLEAN}
\* ANSWER_RE finds a letter a-d or nothing; the option loop stops at 4 options.
SanItemInputs ==
    {ItemInput("san", t, sn, n, d, -1, FALSE, FALSE, TRUE, TRUE) :
        t \in BOOLEAN, sn \in BOOLEAN, n \in 0..SAN_OPTIONS,
        d \in (-1)..(SAN_OPTIONS - 1)}
ImpItemInputs ==
    {ItemInput("imp", t, FALSE, n, d, -1, FALSE, FALSE, l, i) :
        t \in BOOLEAN, n \in OptionCounts, d \in IdxOutcomes,
        l \in BOOLEAN, i \in BOOLEAN}

ItemInit ==
    /\ prog = "item" /\ pc = "call"
    /\ fetchFails = 0
    /\ ScraperIdle /\ SanIdle /\ GoIdle /\ IbxIdle /\ DbIdle /\ IdIdle /\ FetchIdle
    /\ ExtIdle
    /\ itemIn \in GoItemInputs \cup SanItemInputs \cup ImpItemInputs
    /\ itemOut = <<>>
    /\ stats_skipped \in 0..MaxSkipped

ItemFrame ==
    UNCHANGED <<prog, itemIn, fetchFails, scraperVars, sanVars, goVars, ibxVars,
                dbVars, idVars, fetchVars, extVars>>

GoExtractItem ==
    /\ prog = "item" /\ pc = "call" /\ itemIn.fn = "go"
    /\ itemOut' = GoItem(itemIn)
    /\ stats_skipped' = stats_skipped + GoItem(itemIn).skipped
    /\ pc' = "done"
    /\ ItemFrame

SanExtractItem ==
    /\ prog = "item" /\ pc = "call" /\ itemIn.fn = "san"
    /\ itemOut' = SanItem(itemIn)
    /\ stats_skipped' = stats_skipped + SanItem(itemIn).skipped
    /\ pc' = "done"
    /\ ItemFrame

ImpParseLine ==
    /\ prog = "item" /\ pc = "call" /\ itemIn.fn = "imp"
    /\ itemOut' = ImpItem(itemIn)
    /\ UNCHANGED stats_skipped
    /\ pc' = "done"
    /\ ItemFrame

ItemNext ==
    \/ GoExtractItem
    \/ SanExtractItem
    \/ ImpParseLine

ItemSpec == ItemInit /\ [][ItemNext]_vars

\* ------------------------------------------------------- question ids
\* A text is a sequence of characters; " " stands for any whitespace character.
Chars == {"a", " "}
Texts == UNION {[1..k -> Chars] : k \in 0..MaxText}
Scopes == 1..NScopes
\* Prompts about as long as the part of the text a seed keeps: that many
\* letters, or one letter more.
Filler(n) == [i \in 1..n |-> "a"]
LongTexts ==
    {Filler(n) \o t : n \in {SAN_SEED_CHARS, GO_SEED_CHARS, HAR_SEED_CHARS},
                      t \in {<<>>, <<"a">>}}
Prompts == Texts \cup LongTexts
\* The first option of a question, as far as the har_scraper seed keeps it.
FirstOptions == 1..2

RECURSIVE StripLeft(_)
StripLeft(t) == IF t # <<>> /\ Head(t) = " " THEN StripLeft(Tail(t)) ELSE t

RECURSIVE StripRight(_)
StripRight(t) ==
    IF t # <<>> /\ t[Len(t)] = " " THEN StripRight(SubSeq(t, 1, Len(t) - 1)) ELSE t

\* str.strip()
Strip(t) == StripRight(StripLeft(t))

\* re.sub(r"\s+", " ", t): every run of whitespace becomes one space
RECURSIVE CollapseRuns(_)
CollapseRuns(t) ==
    LET doubled == {i \in 1..(Len(t) - 1) : t[i] = " " /\ t[i + 1] = " "} IN
    IF doubled = {} THEN t
    ELSE LET i == CHOOSE i \in doubled : \A j \in doubled : i <= j IN
         CollapseRuns(SubSeq(t, 1, i - 1) \o SubSeq(t, i + 1, Len(t)))

\* " ".join(text.strip().split()) (indiabix_scraper_v2.py line 78)
JoinSplit(t) == CollapseRuns(Strip(t))

\* _question_text_hash(text): sha256 of the normalized text; the digest stands
\* for the text it was made from (lines 77-79).
IbxQuestionTextHash(text) == JoinSplit(text)

\* _stable_id(question_text) on q_text = get_text(separator=' ', strip=True)
\* (lines 82-84, 149, 187); uuid5 of a seed is modelled by the seed.
IbxStableId(scope, raw) == <<"indiabix", IbxQuestionTextHash(Strip(raw))>>

\* gotest: q_text = get_text(separator=" ", strip=True).strip(),
\* seed = f"gotest_{sub_category}_{q_text[:200]}" (lines 480, 483, 515)
GoRowId(scope, raw) == <<"gotest", scope, Take(Strip(raw), GO_SEED_CHARS)>>

\* sanfoundry: q_text = re.sub(r"\s+", " ", q_text).strip(),
\* seed = f"sanfoundry_subject_{q_text[:150]}" (lines 710-711, 731-732)
SanRowId(scope, raw) ==
    <<"sanfoundry_subject", Take(Strip(CollapseRuns(raw)), SAN_SEED_CHARS)>>

\* har_scraper.extract_questions_from_html: q_text = get_text(separator=" ",
\* strip=True), seed = f"indiabix_lr_{sub_category}_{q_text[:200]}_{options[0][:50]}"
\* (har_scraper.py lines 121, 179-180)
HarRowId(scope, raw, option) ==
    <<"indiabix_lr", scope, Take(Strip(raw), HAR_SEED_CHARS), option>>

IdInit ==
    /\ prog = "id" /\ pc = "call"
    /\ fetchFails = 0
    /\ ScraperIdle /\ SanIdle /\ GoIdle /\ IbxIdle /\ DbIdle /\ ItemIdle /\ FetchIdle
    /\ ExtIdle
    /\ idIn \in [fn : {"go", "san", "ibx", "har"}, scope1 : Scopes, text1 : Prompts,
                 scope2 : Scopes, text2 : Prompts]
    /\ idOut = <<>>

IdFrame ==
    UNCHANGED <<prog, idIn, fetchFails, scraperVars, sanVars, goVars, ibxVars,
                dbVars, itemVars, fetchVars, extVars>>

GoMakeIds ==
    /\ prog = "id" /\ pc = "call" /\ idIn.fn = "go"
    /\ idOut' = <<GoRowId(idIn.scope1, idIn.text1), GoRowId(idIn.scope2, idIn.text2)>>
    /\ pc' = "done"
    /\ IdFrame

SanMakeIds ==
    /\ prog = "id" /\ pc = "call" /\ idIn.fn = "san"
    /\ idOut' = <<SanRowId(idIn.scope1, idIn.text1), SanRowId(idIn.scope2, idIn.text2)>>
    /\ pc' = "done"
    /\ IdFrame

IbxMakeIds ==
    /\ prog = "id" /\ pc = "call" /\ idIn.fn = "ibx"
    /\ idOut' = <<IbxStableId(idIn.scope1, idIn.text1),
                  IbxStableId(idIn.scope2, idIn.text2)>>
    /\ pc' = "done"
    /\ IdFrame

HarMakeIds ==
    /\ prog = "id" /\ pc = "call" /\ idIn.fn = "har"
    /\ \E o1, o2 \in FirstOptions :
          idOut' = <<HarRowId(idIn.scope1, idIn.text1, o1),
                     HarRowId(idIn.scope2, idIn.text2, o2)>>
    /\ pc' = "done"
    /\ IdFrame

IdNext ==
    \/ GoMakeIds
    \/ SanMakeIds
    \/ IbxMakeIds
    \/ HarMakeIds

IdSpec == IdInit /\ [][IdNext]_vars

\* ------------------------------------------------------------- fetching
\* What one attempt can meet: a page, an exception (timeout, connection error),
\* a response with status 4xx, a response with status 5xx.
AttemptOutcomes == {"ok", "exc", "4xx", "5xx"}

RECURSIVE Pow2(_)
Pow2(n) == IF n = 0 THEN 1 ELSE 2 * Pow2(n - 1)

FetchInit ==
    /\ prog = "fetch" /\ pc = "attempt"
    /\ fetchFails = 0
    /\ ScraperIdle /\ SanIdle /\ GoIdle /\ IbxIdle /\ DbIdle /\ ItemIdle /\ IdIdle
    /\ ExtIdle
    /\ fetcher \in {"san", "go", "ibx", "pak"}
    /\ attempt = 0 /\ tries = <<>> /\ sleeps = <<>>
    /\ fetch_result = "pending"

FetchFrame ==
    UNCHANGED <<prog, fetcher, fetchFails, scraperVars, sanVars, goVars, ibxVars,
                dbVars, itemVars, idVars, extVars>>

\* One pass of the loop body that ended without a page ("continue" after a
\* status >= 400, or the except clause): sleep, then the next attempt whatever
\* made this one fail, or "return None" after the last.
FetchFailed(outcome, delay) ==
    /\ tries' = Append(tries, outcome)
    /\ IF attempt < MAX_RETRIES - 1
       THEN /\ sleeps' = Append(sleeps, delay)
            /\ attempt' = attempt + 1
            /\ UNCHANGED <<pc, fetch_result>>
       ELSE /\ fetch_result' = "none" /\ pc' = "done"
            /\ UNCHANGED <<sleeps, attempt>>

FetchGotPage ==
    /\ tries' = Append(tries, "ok")
    /\ fetch_result' = "page" /\ pc' = "done"
    /\ UNCHANGED <<sleeps, attempt>>

\* time.sleep(2 + attempt) (sanfoundry lines 374, 389; gotest lines 172, 184)
PlaywrightDelay(a) == 2 + a

\* SanfoundrySubjectScraper._fetch_page_playwright, one attempt (lines 368-389)
SanFetchAttempt ==
    /\ prog = "fetch" /\ pc = "attempt" /\ fetcher = "san"
    /\ \E outcome \in AttemptOutcomes :
        IF outcome = "ok" THEN FetchGotPage
        ELSE FetchFailed(outcome, PlaywrightDelay(attempt))
    /\ FetchFrame

\* gotest _get_page_soup, one attempt (lines 165-184)
GoFetchAttempt ==
    /\ prog = "fetch" /\ pc = "attempt" /\ fetcher = "go"
    /\ \E outcome \in AttemptOutcomes :
        IF outcome = "ok" THEN FetchGotPage
        ELSE FetchFailed(outcome, PlaywrightDelay(attempt))
    /\ FetchFrame

\* indiabix_scraper_v2._fetch_page, one attempt (lines 63-73): time.sleep is
\* in the except clause only; a status other than 200 goes straight to the
\* next attempt.
IbxFetchAttempt ==
    /\ prog = "fetch" /\ pc = "attempt" /\ fetcher = "ibx"
    /\ \E outcome \in AttemptOutcomes :
        IF outcome = "ok" THEN FetchGotPage
        ELSE FetchFailed(outcome, IF outcome = "exc" THEN Pow2(attempt) ELSE 0)
    /\ FetchFrame

\* PakMCQsScraper._fetch_page, one attempt (pakmcqs_live_scraper.py lines 48-56):
\* raise_for_status() turns a 4xx / 5xx response into an exception.
PakFetchAttempt ==
    /\ prog = "fetch" /\ pc = "attempt" /\ fetcher = "pak"
    /\ \E outcome \in AttemptOutcomes :
        IF outcome = "ok" THEN FetchGotPage
        ELSE FetchFailed(outcome, 1 + attempt)
    /\ FetchFrame

FetchNext ==
    \/ SanFetchAttempt
    \/ GoFetchAttempt
    \/ IbxFetchAttempt
    \/ PakFetchAttempt

FetchSpec == FetchInit /\ [][FetchNext]_vars

\* ------------------------------------------ GotestScraper._get_correct_by_click
\* Where an answer marker or an answer letter can be: nowhere (-1), or at the
\* second choice (markers) / at the last letter a question can have (texts).
Marks == {-1, 1}
AnswerLetter == MaxChoices - 1
Letters == {-1, AnswerLetter}

\* The item's own container after the interaction, and how the interaction went.
ClickContainers ==
    [n : 2..MaxChoices,        \* num_options
     has_name : BOOLEAN,       \* the first radio of the container has a name
     has_qid : BOOLEAN,        \* the container has an id
     click_ok : BOOLEAN,       \* one of the click attempts went through
     own_marker : Marks,       \* marker on a choice of the container (page source)
     own_live : Marks,         \* marker only the live DOM of the container shows
     own_letter : Letters,     \* "Correct Answer: X" in the container's text
     own_expl : BOOLEAN]       \* "EXPLANATION:" text inside the container

\* The rest of the page: what each respect of it can be.
PageFields ==
    [name_reused |-> BOOLEAN,   \* an earlier sibling item has radios of that name
     sib_marker |-> Marks,      \* marker on a choice of that sibling
     sib_letter |-> Letters,    \* answer letter in that sibling's text
     feedback |-> {"absent", "plain", "answer"},  \* page-level feedback element
     page_letter |-> Letters,   \* answer letter elsewhere in the page text
     page_expl |-> BOOLEAN,     \* "EXPLANATION:" text before the container
     next_text |-> BOOLEAN,     \* the element after the container has text
     page_button |-> BOOLEAN]   \* a Submit / Check / Next / Explanation element

ClickPages ==
    [name_reused : PageFields.name_reused, sib_marker : PageFields.sib_marker,
     sib_letter : PageFields.sib_letter, feedback : PageFields.feedback,
     page_letter : PageFields.page_letter, page_expl : PageFields.page_expl,
     next_text : PageFields.next_text, page_button : PageFields.page_button]

\* The pages that differ from p in one of these respects.
PageEdits(p) ==
    UNION {{[p EXCEPT ![f] = v] : v \in PageFields[f] \ {p[f]}} :
              f \in DOMAIN PageFields}

\* _index_from_regex: min(ord(letter) - ord("A"), len(choices) - 1) (lines 714-720)
IndexFromRegex(letter, n) == IF letter < 0 THEN -1 ELSE Min(letter, n - 1)

\* The element the first click goes to: '[id="{qid}"] input[type="radio"]', or
\* without an id the first 'input[type="radio"][name="{name}"]' of the page
\* (lines 615-622)
ClickTarget(c, p) ==
    IF c.has_qid THEN "own" ELSE IF p.name_reused THEN "sibling" ELSE "own"

\* scope: soup.find("div", id=qid), or without an id the block around the first
\* radio of that name in the page source (lines 688-704)
ClickScope(c, p) ==
    IF c.has_qid THEN "own" ELSE IF p.name_reused THEN "sibling" ELSE "own"

\* The index the feedback text gives: soup.find(id="watuPracticeFeedback") or
\* the first element of the page with a feedback / explanation class
\* (lines 807-809)
FeedbackIndex(c, p) ==
    IndexFromRegex(IF p.feedback = "answer" THEN AnswerLetter ELSE -1, c.n)

\* correct_idx as lines 705-821 resolve it.
ClickIndex(c, p) ==
    LET own == ClickScope(c, p) = "own"
        m1 == IF own THEN c.own_marker ELSE p.sib_marker
        m2 == IF m1 < 0 /\ c.has_qid /\ 0 <= c.own_live /\ c.own_live < c.n
              THEN c.own_live ELSE m1
        m3 == IF m2 < 0 THEN FeedbackIndex(c, p) ELSE m2
        m4 == IF m3 < 0
              THEN IndexFromRegex(IF own THEN c.own_letter ELSE p.sib_letter, c.n)
              ELSE m3
        pageText == IF c.own_letter >= 0 THEN c.own_letter
                    ELSE IF p.sib_letter >= 0 THEN p.sib_letter
                    ELSE p.page_letter
    IN  IF m4 < 0 THEN IndexFromRegex(pageText, c.n) ELSE m4

\* explanation as lines 824-840 find it: the block around the first
\* "EXPLANATION:" string of the page, else the feedback element's text, else the
\* text of the element that follows the scope.
ClickExplanation(c, p) ==
    IF p.page_expl THEN "page explanation"
    ELSE IF c.own_expl THEN "own explanation"
    ELSE IF p.feedback # "absent" THEN "feedback"
    ELSE IF p.next_text THEN "next element"
    ELSE ""

\* What the interaction touches: the first click, then the first element of the
\* document whose text holds Submit / Check / ... / Next, then the first one
\* whose text holds "explanation" (lines 631-685).
ClickTargets(c, p) ==
    {ClickTarget(c, p)} \cup (IF p.page_button THEN {"page"} ELSE {})

\* _get_correct_by_click(page, qb, choice_divs, num_options) (lines 610-844)
GetCorrectByClick(c, p) ==
    IF ~c.has_name THEN [idx |-> -1, explanation |-> "", targets |-> {}]
    ELSE IF ~c.click_ok
    THEN [idx |-> -1, explanation |-> "", targets |-> {ClickTarget(c, p)}]
    ELSE [idx |-> ClickIndex(c, p), explanation |-> ClickExplanation(c, p),
          targets |-> ClickTargets(c, p)]

\* The row _extract_questions_from_soup makes of the block when the lookup in
\* the page source found no answer and allow_unknown_correct is off
\* (lines 502-529).
ClickRow(c, p) ==
    GoItem(ItemInput("go", TRUE, FALSE, c.n, -1, GetCorrectByClick(c, p).idx,
                     TRUE, FALSE, TRUE, TRUE))

ClickInit ==
    /\ prog = "click" /\ pc = "call"
    /\ fetchFails = 0
    /\ ScraperIdle /\ SanIdle /\ GoIdle /\ IbxIdle /\ DbIdle
    /\ ItemIdle /\ IdIdle /\ FetchIdle /\ ViewIdle /\ SessIdle
    /\ clickIn \in ClickContainers
    /\ pageIn \in ClickPages
    /\ clickOut = <<>> /\ prevOut = <<>>

ClickFrame ==
    UNCHANGED <<prog, clickIn, fetchFails, scraperVars, sanVars, goVars, ibxVars,
                dbVars, itemVars, idVars, fetchVars, viewVars, sessVars>>

\* One block whose answer is not in the page source: click, resolve, emit.
GoRevealItem ==
    /\ prog = "click" /\ pc = "call"
    /\ clickOut' = [idx |-> GetCorrectByClick(clickIn, pageIn).idx,
                    explanation |-> GetCorrectByClick(clickIn, pageIn).explanation,
                    targets |-> GetCorrectByClick(clickIn, pageIn).targets,
                    row |-> ClickRow(clickIn, pageIn)]
    /\ pc' = "done"
    /\ UNCHANGED <<pageIn, prevOut>>
    /\ ClickFrame

\* The site serves the same item on a page that differs in a sibling item or in
\* a page-level text; the item is scraped again.
PageEdited ==
    /\ prog = "click" /\ pc = "done" /\ prevOut = <<>>
    /\ pageIn' \in PageEdits(pageIn)
    /\ prevOut' = clickOut
    /\ clickOut' = <<>>
    /\ pc' = "call"
    /\ ClickFrame

ClickNext ==
    \/ GoRevealItem
    \/ PageEdited

ClickSpec == ClickInit /\ [][ClickNext]_vars

\* ------------------------- GotestScraper._extract_questions_from_test_page
\* max_questions_per_test = None
Unlimited == -1

\* _get_visible_question_indices(page): the 0-based indices of the blocks the
\* paginator shows (lines 229-248)
VisibleIndices(view) ==
    {i \in 0..(n_blocks - 1) : view * view_size <= i /\ i < (view + 1) * view_size}

\* Mutant: the view is processed whole.
ToProcessAll(visible, limit, so_far) == visible

\* to_process = sorted(visible_indices)[:remaining] with
\* remaining = max(0, max_questions_per_test - questions_attempted_so_far)
\* (lines 467-470)
ToProcess(visible, limit, so_far) ==
    IF limit = Unlimited THEN visible
    ELSE LET remaining == IF limit - so_far > 0 THEN limit - so_far ELSE 0 IN
         {i \in visible : Cardinality({j \in visible : j < i}) < remaining}

ViewInit ==
    /\ prog = "view" /\ pc = "view"
    /\ fetchFails = 0
    /\ ScraperIdle /\ SanIdle /\ GoIdle /\ IbxIdle /\ DbIdle
    /\ ItemIdle /\ IdIdle /\ FetchIdle /\ ClickIdle /\ SessIdle
    /\ max_questions_per_test \in {Unlimited} \cup (0..MaxLimit)
    /\ n_blocks \in 1..MaxBlocks
    /\ view_size \in 1..MaxViewSize
    /\ dom_view = 0
    /\ view_num = 0 /\ questions_attempted_so_far = 0 /\ last_visible = {}
    /\ click_returned = "none" /\ first_id_changed = FALSE

ViewFrame ==
    UNCHANGED <<prog, max_questions_per_test, n_blocks, view_size, fetchFails,
                scraperVars, sanVars, goVars, ibxVars, dbVars, itemVars, idVars,
                fetchVars, clickVars, sessVars>>

\* One pass of "while view_num < 50" up to the paginator click (lines 381-404).
GoViewExtract ==
    /\ prog = "view" /\ pc = "view"
    /\ IF view_num >= MAX_VIEWS
       THEN /\ pc' = "done"
            /\ UNCHANGED <<view_num, questions_attempted_so_far, last_visible>>
       ELSE /\ view_num' = view_num + 1
            /\ IF /\ max_questions_per_test # Unlimited
                  /\ questions_attempted_so_far >= max_questions_per_test
               THEN \* "Reached max_questions_per_test"
                    /\ pc' = "done"
                    /\ UNCHANGED <<questions_attempted_so_far, last_visible>>
               ELSE \E visible \in {VisibleIndices(dom_view), {}} :
                    IF visible = {} \/ (last_visible # {} /\ visible = last_visible)
                    THEN \* no visible block, or the same block as before
                         /\ pc' = "done"
                         /\ UNCHANGED <<questions_attempted_so_far, last_visible>>
                    ELSE /\ last_visible' = visible
                         /\ questions_attempted_so_far' =
                               questions_attempted_so_far
                               + Cardinality(ToProcess(visible, max_questions_per_test,
                                                       questions_attempted_so_far))
                         /\ pc' = "click"
    /\ UNCHANGED <<dom_view, click_returned, first_id_changed>>
    /\ ViewFrame

\* _click_question_block_link(page, max(visible) + 2) and what the loop does
\* with its result (lines 262-364, 404-412).  The call returns False when no
\* target was clicked or a click raised; after a click it waits for the first
\* visible id to change, swallows the timeout and returns True.
GoClickBlockLink ==
    /\ prog = "view" /\ pc = "click"
    /\ \E outcome \in {"nolink", "advanced", "stuck"} :
        /\ outcome = "advanced" => VisibleIndices(dom_view + 1) # {}
        /\ dom_view' = IF outcome = "advanced" THEN dom_view + 1 ELSE dom_view
        /\ first_id_changed' = (outcome = "advanced")
        /\ click_returned' = IF outcome = "nolink" THEN "False" ELSE "True"
        /\ pc' = IF outcome = "nolink" THEN "done" ELSE "view"
    /\ UNCHANGED <<view_num, questions_attempted_so_far, last_visible>>
    /\ ViewFrame

ViewNext ==
    \/ GoViewExtract
    \/ GoClickBlockLink

ViewSpec == ViewInit /\ [][ViewNext]_vars

\* The two limited loops: a gotest test page, an IndiaBIX topic.
LimitInit == ViewInit \/ IbxInit

LimitNext ==
    \/ GoViewExtract
    \/ GoClickBlockLink
    \/ IbxCategory
    \/ IbxNextType
    \/ IbxPage

LimitSpec == LimitInit /\ [][LimitNext]_vars

\* ------------------------------------------------------ engine.TestSession
\* user_choice_idx = None (skip)
NoChoice == -1

SessQuestionIds == 1..NQuestions

\* points of submit_answer (lines 168-173)
Points(choice, correct) ==
    IF choice = NoChoice THEN SCORE_SKIP
    ELSE IF choice = correct THEN SCORE_CORRECT
    ELSE SCORE_INCORRECT

\* TestSession.__init__ followed by generate_questions (lines 36-60, 121-147)
SessInit ==
    /\ prog = "sess" /\ pc = "open"
    /\ fetchFails = 0
    /\ ScraperIdle /\ SanIdle /\ GoIdle /\ IbxIdle /\ DbIdle
    /\ ItemIdle /\ IdIdle /\ FetchIdle /\ ClickIdle /\ ViewIdle
    /\ session_questions \in [SessQuestionIds -> 0..MaxChoiceIdx]
    /\ answers = [q \in SessQuestionIds |-> <<>>]
    /\ score_earned = 0
    /\ current_question_idx = 0
    /\ status = "in_progress"

SessFrame ==
    UNCHANGED <<prog, pc, session_questions, fetchFails, scraperVars, sanVars,
                goVars, ibxVars, dbVars, itemVars, idVars, fetchVars, clickVars,
                viewVars>>

\* submit_answer(question_id, user_choice_idx) (lines 149-194); an id that is
\* not in the session returns the error dict and changes nothing.
SubmitAnswer ==
    /\ prog = "sess" /\ current_question_idx < MaxSubmits
    /\ \E question_id \in 1..(NQuestions + 1),
          user_choice_idx \in {NoChoice} \cup (0..MaxChoiceIdx) :
        IF question_id \notin SessQuestionIds
        THEN UNCHANGED <<answers, score_earned, current_question_idx>>
        ELSE LET points == Points(user_choice_idx, session_questions[question_id])
             IN
             /\ answers' =
                  [answers EXCEPT ![question_id] =
                      [user_choice_idx |-> user_choice_idx,
                       is_correct |-> (user_choice_idx # NoChoice
                                       /\ user_choice_idx
                                            = session_questions[question_id]),
                       points_earned |-> points]]
             /\ score_earned' = score_earned + points
             /\ current_question_idx' = current_question_idx + 1
    /\ UNCHANGED status
    /\ SessFrame

\* end_session() (lines 196-247): the totals are read, not changed.
EndSession ==
    /\ prog = "sess" /\ status = "in_progress"
    /\ status' = "completed"
    /\ UNCHANGED <<answers, score_earned, current_question_idx>>
    /\ SessFrame

SessNext ==
    \/ SubmitAnswer
    \/ EndSession

SessSpec == SessInit /\ [][SessNext]_vars

\* ===================================================================
\* Properties
\* ===================================================================
Finished == pc \in {"done", "raised"}
FlushPcs == {"hflush", "pflush", "gflush"}
SinkSaw == Flatten(delivered)

\* The first dispatched section of a subject has ended without a failed fetch.
FirstSectionEnded(entry) ==
    /\ prog = "san" /\ pc = "secend" /\ sec = 1
    /\ section_urls[1] = entry
    /\ secFetchFails = 0

\* Pages 1, 2, 3 linked 1 -> 2 -> 3 -> (no next), page 1 being the first page.
ChainSite ==
    /\ nextLink[1] = 2 /\ nextLink[2] = 3 /\ nextLink[3] = None
    /\ prevLink[1] = None
    /\ group[1] = group[2] /\ group[2] = group[3]

\* C1: a section P1 -> P2 -> P3 -> (no next) entered at P1: the traversal
\* extracts the three pages, each once and in order, and takes no cycle branch.
C1_ChainScrapedOnce ==
    (FirstSectionEnded(1) /\ ChainSite)
        => (secExtracted = <<1, 2, 3>> /\ secCycles = 0)

C1_Witness ==
    FirstSectionEnded(1) /\ ChainSite /\ secExtracted = <<1, 2, 3>>

\* The entry page 2 has a prev link to page 1, which is the first page.
EntryAfterFirstPage ==
    /\ prevLink[2] = 1 /\ prevLink[1] = None
    /\ nextLink[1] = 2
    /\ group[1] = group[2]

\* C2: entered at P2 whose prev is P1, seek-start walks back to P1 and
\* scrape-forward extracts P1 and then the pages that follow it.
C2_SeekStartThenScrape ==
    (FirstSectionEnded(2) /\ EntryAfterFirstPage)
        => /\ secPrevFetched = <<1>>
           /\ Len(secExtracted) >= 2
           /\ secExtracted[1] = 1 /\ secExtracted[2] = 2

\* Page 2's next link points back to page 1, the section's first page and entry;
\* page 2 is not itself listed as a section.
BackLinkSite ==
    /\ prog = "san"
    /\ section_urls # <<>> /\ section_urls[1] = 1
    /\ 2 \notin Range(section_urls)
    /\ nextLink[1] = 2 /\ nextLink[2] = 1
    /\ prevLink[1] = None
    /\ group[1] = group[2]

\* C3: when P2's next points back to P1, the section stops at the repeat with
\* P1 and P2 extracted once (one cycle event); the run goes on, and at its end
\* every row of P1 and P2 is in the output once and was handed to the sink once.
C3_BackLinkStopsSection ==
    /\ (BackLinkSite /\ pc = "secend" /\ sec = 1 /\ secFetchFails = 0)
          => (secExtracted = <<1, 2>> /\ secCycles = 1)
    /\ (BackLinkSite /\ pc = "done" /\ fetchFails = 0)
          => \A s \in 1..NSubjects, p \in {1, 2} : \A k \in 1..RowCount(p) :
                /\ Count(all_rows, Item(s, p, k)) = 1
                /\ on_chunk = "sink" => Count(SinkSaw, Item(s, p, k)) = 1

C3_Witness ==
    /\ BackLinkSite /\ pc = "done" /\ fetchFails = 0 /\ on_chunk = "sink"
    /\ Len(section_urls) = 2
    /\ Count(SinkSaw, Item(2, 2, 1)) = 1

\* C4: the traversal of a section is bounded by MAX_PREV_STEPS previous pages
\* and MAX_NEXT_PAGES_PER_SECTION extracted pages, and no phase fetches a URL
\* that is already in a visited set.
C4_BoundedNoRefetch ==
    prog = "san" =>
        /\ Len(secPrevFetched) <= MAX_PREV_STEPS
        /\ Len(secExtracted) <= MAX_NEXT_PAGES_PER_SECTION
        /\ ~refetched

C6_FlushStep ==
    (prog \in {"san", "go"} /\ on_chunk = "sink") =>
        /\ pc' # "done" =>
              \A i \in DOMAIN delivered' : Len(delivered'[i]) = chunk_size
        /\ (pc \in FlushPcs /\ pc' \notin FlushPcs /\ sinkFails' = sinkFails)
              => Len(pending') < chunk_size

C7_RemainderFlushedOnExit ==
    (prog \in {"san", "go"} /\ on_chunk = "sink" /\ Finished)
        => /\ SinkSaw = extracted
           /\ Len(extracted) - Len(SinkSaw) < chunk_size

\* C8: an exception of on_chunk does not end the run and loses no row of the
\* output; a run in which on_chunk raised still ends with every extracted row
\* in the returned list and handed to the sink, and with every test visited.
C8_Step ==
    prog \in {"san", "go"} =>
        /\ sinkFails' > sinkFails => (pc' # "raised" /\ all_rows' = all_rows)
        /\ (pc' = "done" /\ sinkFails' > 0) =>
              /\ all_rows' = extracted'
              /\ SinkSaw' = extracted'
              /\ prog = "go" => stats_tests' = n_tests'

C8_SinkFailureDoesNotAbort == [][C8_Step]_vars

C8_Witness ==
    /\ prog = "go" /\ pc = "done" /\ sinkFails = 1
    /\ Len(delivered) >= 3
    /\ Len(delivered[1]) = chunk_size
    /\ stats_errors = 1

\* C9: in dry-run mode on_chunk is never called, the run does not hang, and
\* it returns every extracted row.
C9_DryRunReturnsAll ==
    (prog \in {"san", "go"} /\ on_chunk = "none") =>
        /\ delivered = <<>>
        /\ Finished \/ ENABLED <<Next>>_vars
        /\ pc = "done" => all_rows = extracted

\* C5: scrape_topic ends, also when the Next links lead back to a page that
\* was scraped already.
C5_TopicTerminates == <>(prog = "ibx" => Finished)

StoredWithId(id) == {i \in DOMAIN table : table[i][1] = id}

\* C10: after any upsert calls the table holds at most one row per id, exactly
\* one for every id of a chunk the store accepted, and no chunk handed to the
\* store has two rows with the same id; delivering a chunk a second time leaves
\* the table as the first delivery left it.
C10_UpsertIdempotent ==
    prog = "db" =>
        /\ \A id \in Ids : Cardinality(StoredWithId(id)) <= 1
        /\ \A c \in DOMAIN sent : ~HasDupIds(sent[c])
        /\ \A c \in DOMAIN sent :
              StoreUpsert(StoreUpsert(table, sent[c]), sent[c]) = StoreUpsert(table, sent[c])
        /\ \A c \in 1..(Len(sent) - 1) : \A i \in DOMAIN sent[c] :
              Cardinality(StoredWithId(sent[c][i][1])) = 1

\* An id stored by the first call is delivered again by the second; one row with
\* the content delivered last is stored for it.
C10_Witness ==
    /\ prog = "db" /\ calls = 2
    /\ Len(sent) = 1 /\ sent[1] = <<<<1, 2>>>>
    /\ table = <<<<1, 2>>, <<2, 1>>>>

ItemDone == prog = "item" /\ pc = "done"

\* C11: every row an extractor emits has 0 <= correct_answer_idx < len(options).
C11_CorrectIdxInRange ==
    (ItemDone /\ itemOut.emitted) =>
        /\ 0 <= itemOut.correct_answer_idx
        /\ itemOut.correct_answer_idx < itemOut.n_options

\* The DOM names an index beyond the two options of the row; the row is emitted
\* with the last option as the answer.
C11_Witness ==
    /\ ItemDone /\ itemIn.fn = "go" /\ itemIn.n_choices = 2
    /\ itemIn.dom = OPTION_CAP - 1
    /\ itemOut.emitted /\ itemOut.correct_answer_idx = 1

\* C12: within one subject no page is extracted twice, also when one section's
\* next-chain has scraped the start page of a section dispatched later.
C12_NoPageExtractedTwice ==
    prog = "san" =>
        \A s \in 1..NSubjects, p \in Pages : Count(extracted, Item(s, p, 1)) <= 1

NoRepeat(rows) == \A i, j \in DOMAIN rows : i # j => rows[i] # rows[j]

\* C13: within one run no id occurs twice in the output list or in the pending
\* buffer.
C13_NoDuplicateIdInRun ==
    prog \in {"san", "go"} => (NoRepeat(all_rows) /\ NoRepeat(pending))

\* C15: the rows of a test extracted before one of its items failed are in the
\* list run() returns, and with a sink they were handed to on_chunk.
C15_ItemFailureKeepsEarlierRows ==
    (prog = "go" /\ pc = "done") =>
        \A i \in DOMAIN lost_rows :
            /\ Count(all_rows, lost_rows[i]) >= 1
            /\ on_chunk = "sink" => Count(SinkSaw, lost_rows[i]) >= 1

\* Normalization of the spec: collapse whitespace and trim.
Normalized(t) == Strip(CollapseRuns(t))

\* C14: in one scope, two prompts with the same (non-empty) normalized text get
\* the same id; under two scopes, the same normalized prompt gets two ids.
C14_IdFromScopeAndNormalizedText ==
    (prog = "id" /\ pc = "done"
        /\ Normalized(idIn.text1) # <<>>
        /\ Normalized(idIn.text1) = Normalized(idIn.text2)) =>
            (idOut[1] = idOut[2]) <=> (idIn.scope1 = idIn.scope2)

\* C16: a page whose fetch failed does not abort the run: scrape_topic still
\* returns (the questions collected so far); it is not left by an exception,
\* which main, having no handler around scrape_topic, would not survive.
C16_IbxFetchFailureDoesNotAbort ==
    (prog = "ibx" /\ fetchFails > 0 /\ Finished) => pc = "done"

\* C17: a fetch makes at most MAX_RETRIES attempts and returns None only after
\* the last; after every failed attempt that is followed by another it waits,
\* each wait longer than the one before.
C17_BoundedRetriesGrowingDelay ==
    (prog = "fetch" /\ fetcher \in {"san", "go", "ibx"}) =>
        /\ Len(tries) <= MAX_RETRIES
        /\ fetch_result = "none" => Len(tries) = MAX_RETRIES
        /\ \A i \in DOMAIN sleeps : sleeps[i] > 0
        /\ \A i \in 1..(Len(sleeps) - 1) : sleeps[i] < sleeps[i + 1]

\* C18: an attempt answered with a 4xx status is the last attempt of the call.
C18_PermanentFailureNotRetried ==
    (prog = "fetch" /\ fetcher \in {"san", "go", "pak"}) =>
        \A i \in DOMAIN tries : tries[i] = "4xx" => i = Len(tries)

\* A gotest block with a valid, unseen prompt whose answer neither the DOM nor
\* the click reveals.
GoUnresolved ==
    /\ prog = "item" /\ itemIn.fn = "go"
    /\ itemIn.text_ok /\ ~itemIn.seen
    /\ itemIn.dom < 0
    /\ itemIn.page => itemIn.click < 0

C19_Step ==
    (GoUnresolved /\ pc = "call" /\ pc' = "done") =>
        IF itemIn.allow_unknown
        THEN /\ itemOut'.emitted /\ itemOut'.correct_answer_idx = 0
             /\ itemOut'.flagged
             /\ stats_skipped' = stats_skipped
        ELSE /\ ~itemOut'.emitted
             /\ stats_skipped' = stats_skipped + 1

\* C19: an unresolved gotest item is dropped and counted as skipped once, unless
\* allow_unknown_correct is set: then it is emitted with index 0 and the
\* "not verified" text in front of its explanation.
C19_UnresolvedDroppedOrFlagged == [][C19_Step]_vars

C19_Witness ==
    /\ GoUnresolved /\ pc = "done" /\ itemIn.allow_unknown /\ itemIn.page
    /\ itemOut.emitted /\ itemOut.flagged /\ itemOut.correct_answer_idx = 0

\* C20: a container with exactly one choice row (and a valid, unseen prompt)
\* yields no row and adds exactly 1 to the skip counter.
C20_OneChoiceSkipped ==
    (ItemDone /\ itemIn.fn \in {"go", "san"} /\ itemIn.n_choices = 1
        /\ itemIn.text_ok /\ ~itemIn.seen) =>
            (~itemOut.emitted /\ itemOut.skipped = 1)

\* C21: what _get_correct_by_click resolves for an item depends on the item's
\* own container only: the same container on a page that differs in a sibling
\* item or a page-level text gives the same index and explanation, and the
\* interaction touches nothing outside the container.
C21_ClickDependsOnContainerOnly ==
    (prog = "click" /\ pc = "done") =>
        /\ prevOut # <<>> =>
              /\ clickOut.idx = prevOut.idx
              /\ clickOut.explanation = prevOut.explanation
        /\ clickOut.targets \subseteq {"own"}

\* C26: an item without an answer marker in the page source, whose marker shows
\* on one of its choices after the click went through, is emitted with that
\* choice as correct index and with a non-empty explanation.
C26_RevealedItemEmitted ==
    (/\ prog = "click" /\ pc = "done"
     /\ clickIn.has_name /\ clickIn.click_ok /\ clickIn.own_marker >= 0)
        => /\ clickOut.row.emitted
           /\ clickOut.row.correct_answer_idx = clickIn.own_marker
           /\ clickOut.explanation # ""

\* C22 as stated: with a sink, at every point of a run the chunks handed to
\* on_chunk so far, in call order, followed by the pending buffer are the rows
\* extracted so far in extraction order.
C22_SinkThenPendingIsExtracted ==
    (prog \in {"san", "go"} /\ on_chunk = "sink")
        => SinkSaw \o pending = extracted

\* C22 amended: with a sink, at every point up to the final flush the chunks
\* handed over followed by the pending buffer are the rows extracted so far, in
\* order; the final flush hands the buffer over without emptying it, and when
\* the run has completed the chunks handed over are the extracted rows, in
\* extraction order, each once.
C22_SinkOrderUpToFinalFlush ==
    (prog \in {"san", "go"} /\ on_chunk = "sink") =>
        /\ pc # "done" => SinkSaw \o pending = extracted
        /\ pc = "done" => SinkSaw = extracted

C22_Witness ==
    /\ prog \in {"san", "go"} /\ on_chunk = "sink" /\ pc = "done"
    /\ Len(delivered) >= 3 /\ pending # <<>>
    /\ delivered[Len(delivered)] = pending
    /\ SinkSaw = extracted

\* C25: every page fetch that fails after all retries is counted in
\* stats["errors"].
C25_FetchErrorsCounted ==
    prog \in {"san", "go"} => stats_errors >= fetchFails

\* C23: a scraper constructed with single_url scrapes that test URL and no
\* other test (test_links[i] is test i; the tests scraped so far are the first
\* stats["tests"] of them).
C23_OnlySingleUrlScraped ==
    (prog = "go" /\ single_url # None)
        => \A t \in 1..stats_tests : t = single_url

\* C24: the question blocks attempted for one gotest test, summed over the
\* views of its in-page pagination, never exceed max_questions_per_test, and
\* scrape_topic never holds more than max_questions questions.
C24_LimitsBoundWork ==
    /\ (prog = "view" /\ max_questions_per_test # Unlimited)
          => questions_attempted_so_far <= max_questions_per_test
    /\ prog = "ibx" => Len(questions) <= max_questions

\* A test of four blocks shown two at a time, limit 3: the second view is cut
\* to one block and the third pass stops at the limit.
C24_Witness ==
    /\ prog = "view" /\ pc = "done" /\ max_questions_per_test = 3
    /\ view_size = 2 /\ n_blocks = 4 /\ view_num = 3
    /\ questions_attempted_so_far = 3

\* A page with two new questions met with room for one.
IbxCutMidPage ==
    /\ prog = "ibx" /\ pc = "done" /\ max_questions = 1
    /\ Len(questions) = 1 /\ Len(ibxQid[starting_urls[1]]) = 2
    /\ ibxQid[starting_urls[1]][1] # ibxQid[starting_urls[1]][2]

\* C27: _click_question_block_link returns True only when the id of the first
\* visible question block has changed.
C27_TrueOnlyAfterIdChanged ==
    (prog = "view" /\ click_returned = "True") => first_id_changed

\* C28: whenever scrape_all is in one of its flush loops
\* ("while len(pending) >= chunk_size: pending = self._flush_chunk(...)"), the
\* loop exits and the traversal continues, with on_chunk None as with a sink.
C28_FlushLoopExits ==
    (prog = "san" /\ pc \in {"hflush", "pflush"})
        ~> (pc \notin {"hflush", "pflush"})

\* C29: two prompts of the same scope whose texts differ (in more than their
\* whitespace) get different ids, wherever in the text the difference is.
C29_DifferentQuestionsDifferentIds ==
    (/\ prog = "id" /\ pc = "done"
     /\ idIn.scope1 = idIn.scope2
     /\ Normalized(idIn.text1) # <<>> /\ Normalized(idIn.text2) # <<>>
     /\ Normalized(idIn.text1) # Normalized(idIn.text2))
        => idOut[1] # idOut[2]

\* sum(a["points_earned"] for a in answers.values()) over the first q questions
RECURSIVE RecordedPoints(_)
RecordedPoints(q) ==
    IF q = 0 THEN 0
    ELSE RecordedPoints(q - 1)
            + (IF answers[q] = <<>> THEN 0 ELSE answers[q].points_earned)

\* C30: after any sequence of submit_answer calls score_earned is the sum of
\* points_earned over the recorded answers, each recorded answer being worth
\* +1.0 when correct, -0.25 when wrong and 0 when skipped.
C30_ScoreIsSumOfRecorded ==
    prog = "sess" =>
        /\ score_earned = RecordedPoints(NQuestions)
        /\ \A q \in SessQuestionIds :
              answers[q] # <<>> =>
                  answers[q].points_earned
                      = Points(answers[q].user_choice_idx, session_questions[q])

=============================================================================
